---- MODULE Spec2Model ----
(***************************************************************************)
(* A model of jsql (src/jsql/__init__.py): the safety validator, the      *)
(* token-stream rewriter, the bind-key generator, the list/tuple          *)
(* parameter expander and the two entry points that run them before the   *)
(* external execute capability.                                           *)
(*                                                                         *)
(* Text is modelled as a sequence of one-character strings, so that the   *)
(* regular expressions, str.replace, str.endswith and str(int) of the     *)
(* source are computed character by character.                            *)
(***************************************************************************)
EXTENDS Integers, Sequences, FiniteSets, TLC

VARIABLES
    arg,        \* assert_safe_filter: the argument of the call
    outcome,    \* assert_safe_filter: what the call did
    stream,     \* filter_stream: the token stream being consumed
    pos,        \* filter_stream: number of tokens consumed so far
    emitted,    \* filter_stream: tokens yielded so far
    qtext,      \* format_query_with_list_params: the query text
    mapping,    \* the parameter mapping (mutated in place)
    keys,       \* format_query_with_list_params: keys the loop has yet to visit
    status,     \* format_query_with_list_params: "start", "loop", "ok" or the error
    last,       \* the last iteration: its key and the text and mapping it was given
    qtext0,     \* the query text the call was given
    mapping0,   \* the mapping as the call was given it
    keycnt,     \* key_generator: the counters of the closure, by prefix
    calls,      \* the calls of the bind function so far, with what each returned
    entry,      \* the entry point of the running call: "sql_inner" or "factory"
    steps,      \* the statements the running call has yet to execute
    stages,     \* the stages the running call has completed without error
    gens,       \* the bind functions made so far: each one's counters and maker
    used,       \* the bind function the running call renders with, and the
                \* counters it had when the rendering began
    executed,   \* the invocations of the external execute capability
    ncalls      \* the number of entry-point calls started

varsValidate == <<arg, outcome>>
varsFilter == <<stream, pos, emitted>>
varsExpand == <<qtext, mapping, keys, status, last, qtext0, mapping0>>
varsBind == <<keycnt, calls>>
varsCalls == <<entry, steps, stages, gens, used, executed, ncalls>>
vars == <<arg, outcome, stream, pos, emitted,
          qtext, mapping, keys, status, last, qtext0, mapping0, keycnt, calls,
          entry, steps, stages, gens, used, executed, ncalls>>

(***************************************************************************)
(* Bounds of the model.                                                    *)
(***************************************************************************)
MaxStrLen == 3
MaxTokens == 4
MaxFrags == 2
MaxListLen == 2
MaxArity == 2
MaxBinds == 3
MaxPieces == 2
MaxCalls == 2

(***************************************************************************)
(* Characters.                                                             *)
(***************************************************************************)
LowerCase == {"a", "b", "c", "d", "e", "f", "g", "h", "i", "j", "k", "l", "m",
              "n", "o", "p", "q", "r", "s", "t", "u", "v", "w", "x", "y", "z"}
UpperCase == {"A", "B", "C", "D", "E", "F", "G", "H", "I", "J", "K", "L", "M",
              "N", "O", "P", "Q", "R", "S", "T", "U", "V", "W", "X", "Y", "Z"}
Digits == {"0", "1", "2", "3", "4", "5", "6", "7", "8", "9"}
NL == "\n"

SeqsUpTo(S, n) == UNION {[1..k -> S] : k \in 0..n}

(***************************************************************************)
(* Text helpers: str.replace, str.endswith, str.join, str(int).            *)
(***************************************************************************)
\* Whether t occurs in s at index p (1-based).
OccursAt(s, p, t) ==
    /\ p + Len(t) - 1 <= Len(s)
    /\ \A i \in 1..Len(t) : s[p + i - 1] = t[i]

\* The least index from p on where t occurs in s, 0 when there is none.
FindFrom(s, p, t) ==
    LET hits == {q \in p..Len(s) : OccursAt(s, q, t)}
    IN  IF hits = {} THEN 0 ELSE CHOOSE q \in hits : \A r \in hits : q <= r

\* The text of s from index p on with the occurrences of old replaced: the scan
\* copies up to the next occurrence, puts new, and goes on behind the occurrence.
RECURSIVE ReplaceFrom(_, _, _, _)
ReplaceFrom(s, p, old, new) ==
    LET q == FindFrom(s, p, old)
    IN  IF q = 0 THEN SubSeq(s, p, Len(s))
        ELSE SubSeq(s, p, q - 1) \o new \o ReplaceFrom(s, q + Len(old), old, new)

\* s.replace(old, new) for a non-empty old: every non-overlapping occurrence, left
\* to right; the inserted text is not scanned again.
Replace(s, old, new) == ReplaceFrom(s, 1, old, new)

EndsWith(s, suffix) ==
    /\ Len(suffix) <= Len(s)
    /\ OccursAt(s, Len(s) - Len(suffix) + 1, suffix)

RECURSIVE Join(_, _)
Join(sep, parts) ==
    IF parts = <<>> THEN <<>>
    ELSE IF Len(parts) = 1 THEN parts[1]
    ELSE parts[1] \o sep \o Join(sep, Tail(parts))

DigitChar(d) ==
    CASE d = 0 -> "0" [] d = 1 -> "1" [] d = 2 -> "2" [] d = 3 -> "3" [] d = 4 -> "4"
      [] d = 5 -> "5" [] d = 6 -> "6" [] d = 7 -> "7" [] d = 8 -> "8" [] d = 9 -> "9"

\* str(n) of a non-negative integer: decimal, no leading zeros.
RECURSIVE IntToStr(_)
IntToStr(n) ==
    IF n < 10 THEN <<DigitChar(n)>>
    ELSE IntToStr(n \div 10) \o <<DigitChar(n % 10)>>

CommaSpace == <<",", " ">>
NullText == <<"n", "u", "l", "l">>
ListSuffix == <<"_", "l", "i", "s", "t">>
TupleListSuffix == <<"_", "t", "u", "p", "l", "e", "_", "l", "i", "s", "t">>

(***************************************************************************)
(* Safety validator.                                                       *)
(***************************************************************************)
\* The character class of NOT_DANGEROUS_RE.
SafeChars == LowerCase \cup UpperCase \cup Digits \cup {"_"}

\* Where the pattern's "$" matches (no re.MULTILINE): at the end of the text, and
\* just before a newline that is the last character of the text.
AtDollar(s, q) ==
    \/ q = Len(s)
    \/ q = Len(s) - 1 /\ s[Len(s)] = NL

\* NOT_DANGEROUS_RE.match(value): "^" at 0, q characters of the class, then "$".
is_safe(s) ==
    \E q \in 0..Len(s) :
        /\ \A i \in 1..q : s[i] \in SafeChars
        /\ AtDollar(s, q)

\* Values: None, a DangerouslyInjectedSql, a str, a non-negative int, a list or a
\* tuple of values.
NoneValue == [t |-> "none", v |-> <<>>]
Marked(s) == [t |-> "marked", v |-> s]
Str(s) == [t |-> "str", v |-> s]
IntVal(n) == [t |-> "int", v |-> n]
ListVal(elems) == [t |-> "list", v |-> elems]
TupleVal(elems) == [t |-> "tuple", v |-> elems]

\* repr(value) and str(value): a str is itself under str and quoted under repr, an
\* int is its decimal form, a list or tuple brackets the repr of its elements (a
\* one-element tuple keeps its trailing comma).
RECURSIVE PyRepr(_)
PyRepr(v) ==
    CASE v.t = "str" -> <<"'">> \o v.v \o <<"'">>
      [] v.t = "int" -> IntToStr(v.v)
      [] v.t = "list" ->
           <<"[">> \o Join(CommaSpace, [i \in 1..Len(v.v) |-> PyRepr(v.v[i])]) \o <<"]">>
      [] v.t = "tuple" ->
           <<"(">> \o Join(CommaSpace, [i \in 1..Len(v.v) |-> PyRepr(v.v[i])])
                  \o (IF Len(v.v) = 1 THEN <<",">> ELSE <<>>) \o <<")">>
      [] v.t = "undefined" -> <<>>
      [] OTHER -> <<"N", "o", "n", "e">>

PyStr(v) == IF v.t \in {"str", "marked"} THEN v.v ELSE PyRepr(v)

Returned(v) == [status |-> "returned", v |-> v]
Raised(e, v) == [status |-> e, v |-> v]
Pending == [status |-> "pending", v |-> NoneValue]

assert_safe_filter(v) ==
    IF v.t = "none" THEN Returned(NoneValue)
    ELSE IF v.t = "marked" THEN Returned(v)
    ELSE LET text == PyStr(v)
         IN  IF ~is_safe(text) THEN Raised("UnsafeSqlException", Str(text))
             ELSE Returned(Str(text))

\* The characters the checked strings are drawn from: members of the class, and
\* characters outside it (space, quote, newline).
ValidateAlphabet == {"a", "Z", "0", "_", " ", "'", NL}
ValidateInputs ==
    {NoneValue} \cup {Str(s) : s \in SeqsUpTo(ValidateAlphabet, MaxStrLen)}
                \cup {Marked(s) : s \in SeqsUpTo({"a", "'", NL}, MaxStrLen)}

InitValidate ==
    /\ arg \in ValidateInputs
    /\ outcome = Pending

CallAssertSafe ==
    /\ outcome.status = "pending"
    /\ outcome' = assert_safe_filter(arg)
    /\ UNCHANGED <<arg, varsFilter, varsExpand, varsBind, varsCalls>>

(***************************************************************************)
(* Template safety rewriter.                                               *)
(***************************************************************************)
Token(lineno, type, val) == [lineno |-> lineno, type |-> type, value |-> val]

\* Mutation of FilterToken: the tokens before "variable_end" are left out, so an
\* interpolation is opened with "(" and never closed and filtered.
FilterToken_NoClose(token) ==
    << token >>
    \o (IF token.type = "variable_begin"
          THEN << Token(token.lineno, "lparen", "(") >>
          ELSE << >>)

\* One iteration of the loop of AssertSafeExtension.filter_stream: what it yields
\* for one token of the stream.
FilterToken(token) ==
    (IF token.type = "variable_end"
       THEN << Token(token.lineno, "rparen", ")"),
               Token(token.lineno, "pipe", "|"),
               Token(token.lineno, "name", "assert_safe") >>
       ELSE << >>)
    \o << token >>
    \o (IF token.type = "variable_begin"
          THEN << Token(token.lineno, "lparen", "(") >>
          ELSE << >>)

\* The tokens streams are drawn from: the lexer's delimiters and expression tokens,
\* among them the ones the rewriter itself inserts.
StreamTokens ==
    { Token(1, "data", "x"), Token(1, "variable_begin", "{{"),
      Token(1, "variable_end", "}}"), Token(1, "name", "v"),
      Token(2, "lparen", "("), Token(2, "rparen", ")"),
      Token(2, "block_begin", "{%") }

InitFilter ==
    /\ stream \in SeqsUpTo(StreamTokens, MaxTokens)
    /\ pos = 0
    /\ emitted = <<>>

FilterStreamStep ==
    /\ pos < Len(stream)
    /\ pos' = pos + 1
    /\ emitted' = emitted \o FilterToken(stream[pos + 1])
    /\ UNCHANGED <<stream, varsValidate, varsExpand, varsBind, varsCalls>>

(***************************************************************************)
(* List/tuple parameter expander.                                          *)
(***************************************************************************)
\* The class [a-zA-Z_] of the placeholder pattern.
KeyChars == LowerCase \cup UpperCase \cup {"_"}

\* The number of consecutive KeyChars of s from index p on.
RunLen(s, p) ==
    LET runs == {n \in 0..(Len(s) - p + 1) :
                    \A i \in p..(p + n - 1) : s[i] \in KeyChars}
    IN  CHOOSE n \in runs : \A r \in runs : r <= n

\* The length of the match of ":[a-zA-Z_]+_list" at index p, 0 when there is none:
\* ":", then the longest m >= 1 characters of the class that "_list" follows.
MatchLen(s, p) ==
    IF p > Len(s) \/ s[p] # ":" THEN 0
    ELSE LET r == RunLen(s, p + 1)
             ms == {m \in 1..r : m + 5 <= r /\ OccursAt(s, p + 1 + m, ListSuffix)}
         IN  IF ms = {} THEN 0
             ELSE 1 + (CHOOSE m \in ms : \A n \in ms : n <= m) + 5

\* The least index from p on where the pattern matches, 0 when there is none.
NextMatch(s, p) ==
    LET hits == {q \in p..Len(s) : MatchLen(s, q) > 0}
    IN  IF hits = {} THEN 0 ELSE CHOOSE q \in hits : \A r \in hits : q <= r

\* The matches from index p on: the leftmost one, then those behind it.
RECURSIVE FindAllFrom(_, _)
FindAllFrom(s, p) ==
    LET q == NextMatch(s, p)
    IN  IF q = 0 THEN {}
        ELSE {SubSeq(s, q, q + MatchLen(s, q) - 1)}
             \cup FindAllFrom(s, q + MatchLen(s, q))

\* set(re.findall("(?P<key>:[a-zA-Z_]+_list)", query))
get_param_keys(query) == FindAllFrom(query, 1)

\* dict.pop(k) leaves, and d[k] = v makes, of a mapping.
Without(d, k) == [x \in DOMAIN d \ {k} |-> d[x]]
With(d, k, v) == [x \in DOMAIN d \cup {k} |-> IF x = k THEN v ELSE d[x]]

Ok(q, p) == [status |-> "ok", query |-> q, params |-> p]
Fail(e, q, p) == [status |-> e, query |-> q, params |-> p]

\* The loop of _format_query_list_key from index i (0-based) on: the generated
\* keys and the mapping with their entries.
RECURSIVE ListLoop(_, _, _, _, _)
ListLoop(key, values, i, new_keys, params) ==
    IF i >= Len(values) THEN [new_keys |-> new_keys, params |-> params]
    ELSE LET new_key == key \o <<"_">> \o IntToStr(i)
         IN  ListLoop(key, values, i + 1, Append(new_keys, new_key),
                      With(params, Tail(new_key), values[i + 1]))

_format_query_list_key(key, query, params) ==
    IF Tail(key) \notin DOMAIN params THEN Fail("KeyError", query, params)
    ELSE LET values == params[Tail(key)]
             popped == Without(params, Tail(key))
         IN  IF values.t \notin {"list", "tuple"}
               THEN Fail("TypeError", query, popped)
               ELSE LET res == ListLoop(key, values.v, 0, <<>>, popped)
                        joined == Join(CommaSpace, res.new_keys)
                        new_keys_str == IF joined = <<>> THEN NullText ELSE joined
                    IN  Ok(Replace(query, key, <<"(">> \o new_keys_str \o <<")">>),
                           res.params)

\* Mutation of TupleInner: the elements of a tuple are numbered from 1.
RECURSIVE TupleInner_FromOne(_, _, _, _, _)
TupleInner_FromOne(new_key, value, i, new_keys2, params) ==
    IF i >= Len(value) THEN [new_keys2 |-> new_keys2, params |-> params]
    ELSE LET new_key2 == new_key \o <<"_">> \o IntToStr(i + 1)
         IN  TupleInner_FromOne(new_key, value, i + 1, Append(new_keys2, new_key2),
                                With(params, Tail(new_key2), value[i + 1]))

\* The inner loop of _format_query_tuple_list_key from index i on.
RECURSIVE TupleInner(_, _, _, _, _)
TupleInner(new_key, value, i, new_keys2, params) ==
    IF i >= Len(value) THEN [new_keys2 |-> new_keys2, params |-> params]
    ELSE LET new_key2 == new_key \o <<"_">> \o IntToStr(i)
         IN  TupleInner(new_key, value, i + 1, Append(new_keys2, new_key2),
                        With(params, Tail(new_key2), value[i + 1]))

\* The outer loop of _format_query_tuple_list_key. n is enumerate's own position;
\* the loop variable i is bound to it at the head of each iteration, new_key is
\* built from that i, and only then does the inner loop rebind i.
RECURSIVE TupleLoop(_, _, _, _, _)
TupleLoop(key, values, n, new_keys, params) ==
    IF n >= Len(values) THEN [status |-> "ok", new_keys |-> new_keys, params |-> params]
    ELSE LET i == n
             value == values[n + 1]
             new_key == key \o <<"_">> \o IntToStr(i)
         IN  IF value.t # "tuple"
               THEN [status |-> "AssertionError", new_keys |-> new_keys,
                     params |-> params]
               ELSE LET inner == TupleInner(new_key, value.v, 0, <<>>, params)
                        group == <<"(">> \o Join(CommaSpace, inner.new_keys2) \o <<")">>
                    IN  TupleLoop(key, values, n + 1, Append(new_keys, group),
                                  inner.params)

_format_query_tuple_list_key(key, query, params) ==
    IF Tail(key) \notin DOMAIN params THEN Fail("KeyError", query, params)
    ELSE LET values == params[Tail(key)]
             popped == Without(params, Tail(key))
         IN  IF values.t \notin {"list", "tuple"}
               THEN Fail("TypeError", query, popped)
               ELSE LET res == TupleLoop(key, values.v, 0, <<>>, popped)
                        joined == Join(CommaSpace, res.new_keys)
                        new_keys_str == IF joined = <<>> THEN NullText ELSE joined
                    IN  IF res.status # "ok"
                          THEN Fail(res.status, query, res.params)
                          ELSE Ok(Replace(query, key,
                                          <<"(">> \o new_keys_str \o <<")">>),
                                  res.params)

\* One iteration of the loop of format_query_with_list_params.
FormatKey(key, query, params) ==
    IF EndsWith(key, TupleListSuffix)
      THEN _format_query_tuple_list_key(key, query, params)
      ELSE _format_query_list_key(key, query, params)

\* format_query_with_list_params when the set of keys is iterated in this order.
RECURSIVE FormatInOrder(_, _, _)
FormatInOrder(order, query, params) ==
    IF order = <<>> THEN Ok(query, params)
    ELSE LET r == FormatKey(Head(order), query, params)
         IN  IF r.status # "ok" THEN r
             ELSE FormatInOrder(Tail(order), r.query, r.params)

\* The orders a set can be iterated in.
Orders(S) ==
    {f \in [1..Cardinality(S) -> S] : \A i, j \in DOMAIN f : f[i] = f[j] => i = j}

EmptyMap == [x \in {} |-> NoneValue]
NoCall == [key |-> <<>>, query |-> <<>>, params |-> EmptyMap]

\* Query texts: up to MaxFrags of these pieces, concatenated. They give plain and
\* tuple-list placeholders, a placeholder that is a prefix of another, repeated
\* placeholders and text that is no placeholder.
Fragments ==
    { <<":", "a", "_", "l", "i", "s", "t">>,
      <<":", "a", "_", "l", "i", "s", "t", "_", "b", "_", "l", "i", "s", "t">>,
      <<":", "t", "_", "t", "u", "p", "l", "e", "_", "l", "i", "s", "t">>,
      <<"_", "b", "_", "l", "i", "s", "t">>,
      <<" ">> }

RECURSIVE Concat(_)
Concat(parts) == IF parts = <<>> THEN <<>> ELSE Head(parts) \o Concat(Tail(parts))

Queries == {Concat(fs) : fs \in SeqsUpTo(Fragments, MaxFrags)}

\* The values of a list parameter. The expander never looks at an element, so a
\* list is drawn by its shape and filled with pairwise distinct elements, which
\* shows a misplaced one.
IntList(n) == ListVal([i \in 1..n |-> IntVal(i)])
TupleList(n, k) == ListVal([i \in 1..n |-> TupleVal([j \in 1..k |-> IntVal(10 * i + j)])])
MixedList == ListVal(<<TupleVal(<<IntVal(7)>>), IntVal(8)>>)

\* What a plain-list name may be bound to: a list of n ints, a scalar (not
\* iterable).
PlainValues ==
    {IntList(n) : n \in 0..MaxListLen} \cup {IntVal(5)}

\* What a tuple-list name may be bound to: n tuples of arity k, the empty list,
\* a list whose second element is no tuple, a scalar.
TupleValues ==
    {TupleList(n, k) : n \in 1..MaxListLen, k \in 1..MaxArity}
      \cup {IntList(0), MixedList, IntVal(5)}

ValuesFor(name) ==
    IF EndsWith(name, TupleListSuffix) THEN TupleValues ELSE PlainValues

\* Entries the caller's mapping may hold besides the lists: a name of the form the
\* expander generates, and an unrelated one.
ExtraNames == { <<"a", "_", "l", "i", "s", "t", "_", "0">>, <<"x">> }
ExtraMaps ==
    { EmptyMap, [x \in ExtraNames |-> IntVal(9)] }

\* Mappings for a query: any subset of its placeholders' names bound to a value (a
\* missing name is the lookup failure), with or without the extra entries.
MapsFor(q) ==
    LET names == {Tail(k) : k \in get_param_keys(q)}
    IN  { lists @@ extra :
            lists \in UNION { {f \in [D -> PlainValues \cup TupleValues] :
                                 \A x \in D : f[x] \in ValuesFor(x)}
                             : D \in SUBSET names },
            extra \in ExtraMaps }

InitExpand ==
    /\ qtext \in Queries
    /\ mapping \in MapsFor(qtext)
    /\ keys = {}
    /\ status = "start"
    /\ last = NoCall
    /\ qtext0 = qtext
    /\ mapping0 = mapping

\* format_query_with_list_params, line 133: keys = get_param_keys(qtext).
ExpandStart ==
    /\ status = "start"
    /\ keys' = get_param_keys(qtext)
    /\ status' = "loop"
    /\ UNCHANGED <<qtext, mapping, last, qtext0, mapping0, varsValidate, varsFilter, varsBind,
                   varsCalls>>

\* One iteration of "for key in keys": a set is iterated in no particular order.
ExpandKey ==
    /\ status = "loop"
    /\ \E key \in keys :
         LET r == FormatKey(key, qtext, mapping)
         IN  /\ last' = [key |-> key, query |-> qtext, params |-> mapping]
             /\ qtext' = r.query
             /\ mapping' = r.params
             /\ keys' = keys \ {key}
             /\ status' = IF r.status = "ok" THEN "loop" ELSE r.status
    /\ UNCHANGED <<qtext0, mapping0, varsValidate, varsFilter, varsBind,
                   varsCalls>>

\* The loop is over: return qtext, mapping.
ExpandReturn ==
    /\ status = "loop"
    /\ keys = {}
    /\ status' = "ok"
    /\ UNCHANGED <<qtext, mapping, keys, last, qtext0, mapping0,
                   varsValidate, varsFilter, varsBind, varsCalls>>

(***************************************************************************)
(* Bind-key generator.                                                     *)
(***************************************************************************)
BINDPARAM_PREFIX == <<"b", "p">>

\* key_generator: keycnt is a defaultdict(itertools.count), so a prefix met for the
\* first time counts from 0, and every call of gen_key takes the next number.
NoCounters == [x \in {} |-> 0]
gen_key(kc, key) ==
    LET n == IF key \in DOMAIN kc THEN kc[key] ELSE 0
    IN  [key |-> key \o IntToStr(n), keycnt |-> With(kc, key, n + 1)]

\* Mutation of BindLoop: the first key generated is taken, whether or not the
\* mapping holds it.
BindLoop_NoCheck(key, kc, tries, params) ==
    [key |-> key, keycnt |-> kc, tries |-> tries]

\* The loop "while key in params: key = keygen(BINDPARAM_PREFIX)"; tries counts the
\* keys generated.
RECURSIVE BindLoop(_, _, _, _)
BindLoop(key, kc, tries, params) ==
    IF key \in DOMAIN params
      THEN LET g == gen_key(kc, BINDPARAM_PREFIX)
           IN  BindLoop(g.key, g.keycnt, tries + 1, params)
      ELSE [key |-> key, keycnt |-> kc, tries |-> tries]

\* Mutation of bindparam: what is returned is the key with ":" before it.
bindparam_Sigil(val, kc, params) ==
    LET g == gen_key(kc, BINDPARAM_PREFIX)
        f == BindLoop(g.key, g.keycnt, 1, params)
    IN  [key |-> f.key, ret |-> <<":">> \o f.key, tries |-> f.tries,
         keycnt |-> f.keycnt, params |-> With(params, f.key, val)]

\* bindparam(val) of gen_bindparam(params): the key chosen, what is returned, the
\* closure's counters and the mapping afterwards.
bindparam(val, kc, params) ==
    LET g == gen_key(kc, BINDPARAM_PREFIX)
        f == BindLoop(g.key, g.keycnt, 1, params)
    IN  [key |-> f.key, ret |-> f.key, tries |-> f.tries, keycnt |-> f.keycnt,
         params |-> With(params, f.key, val)]

\* Names the mapping may hold when the generator is made: of the generator's own
\* form bp<integer>, near it, and unrelated.
PreNames ==
    { <<"b", "p", "0">>, <<"b", "p", "1">>, <<"b", "p", "2">>, <<"b", "p", "0", "0">>,
      <<"b", "p">>, <<"x">> }
BindValues == {IntVal(1), IntVal(2)}

InitBind ==
    /\ mapping \in UNION {[D -> {IntVal(9)}] : D \in SUBSET PreNames}
    /\ mapping0 = mapping
    /\ keycnt = NoCounters
    /\ calls = <<>>

\* One call of the bind function.
Bind ==
    /\ Len(calls) < MaxBinds
    /\ \E val \in BindValues :
         LET r == bindparam(val, keycnt, mapping)
         IN  /\ mapping' = r.params
             /\ keycnt' = r.keycnt
             /\ calls' = Append(calls, [val |-> val, key |-> r.key, ret |-> r.ret,
                                        tries |-> r.tries, before |-> DOMAIN mapping])
    /\ UNCHANGED <<qtext, keys, status, last, qtext0, mapping0,
                   varsValidate, varsFilter, varsCalls>>

(***************************************************************************)
(* Rendering (the template engine is external: what is modelled of it is   *)
(* the splitting of a template into text and "{{ expression }}" parts, the *)
(* lookup of a name in the context and the call of the bind function; each *)
(* expression's value goes through assert_safe_filter, as filter_stream    *)
(* arranges).                                                              *)
(***************************************************************************)
ExprOpen == <<"{", "{">>
ExprClose == <<"}", "}">>
BindCallOpen == <<"b", "i", "n", "d", "p", "a", "r", "a", "m", "(">>
BindParamName == <<"b", "i", "n", "d", "p", "a", "r", "a", "m">>
Undefined == [t |-> "undefined", v |-> <<>>]
BindFn(id) == [t |-> "bindfn", v |-> id]

\* The parts of a template from index p on.
RECURSIVE LexFrom(_, _)
LexFrom(s, p) ==
    IF p > Len(s) THEN <<>>
    ELSE LET open == FindFrom(s, p, ExprOpen)
         IN  IF open = 0 THEN << [k |-> "data", s |-> SubSeq(s, p, Len(s))] >>
             ELSE IF open > p
               THEN << [k |-> "data", s |-> SubSeq(s, p, open - 1)] >> \o LexFrom(s, open)
             ELSE LET close == FindFrom(s, p + 2, ExprClose)
                  IN  IF close = 0 THEN << [k |-> "error", s |-> <<>>] >>
                      ELSE << [k |-> "expr", s |-> SubSeq(s, p + 2, close - 1)] >>
                           \o LexFrom(s, close + 2)

Lookup(ctx, name) == IF name \in DOMAIN ctx THEN ctx[name] ELSE Undefined

IsBindCall(expr) ==
    /\ OccursAt(expr, 1, BindCallOpen)
    /\ Len(expr) > Len(BindCallOpen)
    /\ expr[Len(expr)] = ")"

\* The text of the parts from the i-th on, appended to out: ctx is the context of
\* the render call, kc the counters of its bind function, params the mapping that
\* function stores into. An exception ends the rendering with no text; what the
\* bind function did before it stays done.
RECURSIVE RenderParts(_, _, _, _, _, _)
RenderParts(parts, i, out, ctx, kc, params) ==
    IF i > Len(parts)
      THEN [status |-> "ok", text |-> out, keycnt |-> kc, params |-> params]
    ELSE IF parts[i].k = "error"
      THEN [status |-> "TemplateSyntaxError", text |-> <<>>, keycnt |-> kc,
            params |-> params]
    ELSE IF parts[i].k = "data"
      THEN RenderParts(parts, i + 1, out \o parts[i].s, ctx, kc, params)
    ELSE IF IsBindCall(parts[i].s)
      THEN LET name == SubSeq(parts[i].s, Len(BindCallOpen) + 1, Len(parts[i].s) - 1)
               b == bindparam(Lookup(ctx, name), kc, params)
               r == assert_safe_filter(Str(b.ret))
           IN  IF r.status # "returned"
                 THEN [status |-> r.status, text |-> <<>>, keycnt |-> b.keycnt,
                       params |-> b.params]
                 ELSE RenderParts(parts, i + 1, out \o PyStr(r.v), ctx, b.keycnt,
                                  b.params)
    ELSE LET r == assert_safe_filter(Lookup(ctx, parts[i].s))
         IN  IF r.status # "returned"
               THEN [status |-> r.status, text |-> <<>>, keycnt |-> kc,
                     params |-> params]
               ELSE RenderParts(parts, i + 1, out \o PyStr(r.v), ctx, kc, params)

(***************************************************************************)
(* The entry points.                                                       *)
(***************************************************************************)
\* Mutation of SqlInnerSteps: the query is executed before the list parameters
\* are expanded.
SqlInnerSteps_ExecuteEarly == <<"render", "execute", "expand">>

\* The statements of sql_inner and of SqlProxyFactory.__call__, in their order.
SqlInnerSteps == <<"render", "expand", "execute">>
FactorySteps == <<"expand", "bind_render", "execute">>

NoGen == [id |-> 0, start |-> NoCounters]

\* Templates: up to MaxPieces of these pieces, concatenated.
Pieces ==
    { <<":", "a", "_", "l", "i", "s", "t">>,
      <<"{", "{", "v", "}", "}">>,
      <<"{", "{", "b", "i", "n", "d", "p", "a", "r", "a", "m", "(", "v", ")", "}", "}">>,
      <<" ">> }
Templates == {Concat(ps) : ps \in SeqsUpTo(Pieces, MaxPieces)}

\* The caller's parameters: v safe, unsafe or absent; a_list a list, a scalar or
\* absent; bp0 taken or not.
CallMaps ==
    { vs @@ ls @@ bs :
        vs \in {EmptyMap, [x \in {<<"v">>} |-> Str(<<"o", "k">>)],
                [x \in {<<"v">>} |-> Str(<<"o", "'">>)]},
        ls \in {EmptyMap, [x \in {<<"a", "_", "l", "i", "s", "t">>} |-> IntList(1)],
                [x \in {<<"a", "_", "l", "i", "s", "t">>} |-> IntVal(5)]},
        bs \in {EmptyMap, [x \in {<<"b", "p", "0">>} |-> IntVal(9)]} }

InitCalls ==
    /\ qtext0 \in Templates
    /\ mapping0 \in CallMaps
    /\ qtext = <<>>
    /\ mapping = EmptyMap
    /\ keys = {}
    /\ status = "idle"
    /\ last = NoCall
    /\ entry = "none"
    /\ steps = <<>>
    /\ stages = {}
    /\ gens = <<>>
    /\ used = NoGen
    /\ executed = <<>>
    /\ ncalls = 0

\* A caller calls sql_inner(engine, template, params) or the factory's
\* __call__(query, params): with a mapping object of its own making, in which it
\* may have put a bind function of its own, or with the object it passed to the
\* call before.
CallStart ==
    /\ status # "running"
    /\ ncalls < MaxCalls
    /\ \E e \in {"sql_inner", "factory"}, same \in BOOLEAN, own \in BOOLEAN :
         /\ same => (ncalls > 0 /\ ~own)
         /\ entry' = e
         /\ steps' = IF e = "sql_inner" THEN SqlInnerSteps ELSE FactorySteps
         /\ gens' = IF own THEN Append(gens, [keycnt |-> NoCounters, by |-> "caller"])
                    ELSE gens
         /\ mapping' = IF same THEN mapping
                       ELSE IF own THEN With(mapping0, BindParamName, BindFn(Len(gens) + 1))
                       ELSE mapping0
    /\ qtext' = qtext0
    /\ status' = "running"
    /\ stages' = {}
    /\ used' = NoGen
    /\ ncalls' = ncalls + 1
    /\ UNCHANGED <<keys, last, qtext0, mapping0, executed,
                   varsValidate, varsFilter, varsBind>>

\* What a rendering leaves: the text and the next statement, or the exception.
Rendered(r, id, kc) ==
    /\ qtext' = IF r.status = "ok" THEN r.text ELSE qtext
    /\ mapping' = r.params
    /\ used' = [id |-> id, start |-> kc]
    /\ status' = IF r.status = "ok" THEN "running" ELSE r.status
    /\ steps' = IF r.status = "ok" THEN Tail(steps) ELSE <<>>
    /\ stages' = IF r.status = "ok" THEN stages \cup {"render"} ELSE stages

\* render(template, params): params["bindparam"] becomes the bind function the
\* mapping already holds, or else a new one; the template is rendered with the
\* mapping as its context.
Render ==
    /\ status = "running"
    /\ steps # <<>>
    /\ Head(steps) = "render"
    /\ LET held == BindParamName \in DOMAIN mapping
           id == IF held THEN mapping[BindParamName].v ELSE Len(gens) + 1
           all == IF held THEN gens
                  ELSE Append(gens, [keycnt |-> NoCounters, by |-> "render"])
           ctx == With(mapping, BindParamName, BindFn(id))
           r == RenderParts(LexFrom(qtext, 1), 1, <<>>, ctx, all[id].keycnt, ctx)
       IN  /\ gens' = [all EXCEPT ![id].keycnt = r.keycnt]
           /\ Rendered(r, id, all[id].keycnt)
    /\ UNCHANGED <<keys, last, qtext0, mapping0, entry, executed, ncalls,
                   varsValidate, varsFilter, varsBind>>

\* SqlProxyFactory.__call__, lines 239-240: a new bind function for this call; the
\* query is rendered with that function as its whole context.
FactoryRender ==
    /\ status = "running"
    /\ steps # <<>>
    /\ Head(steps) = "bind_render"
    /\ LET id == Len(gens) + 1
           ctx == [x \in {BindParamName} |-> BindFn(id)]
           r == RenderParts(LexFrom(qtext, 1), 1, <<>>, ctx, NoCounters, mapping)
       IN  /\ gens' = Append(gens, [keycnt |-> r.keycnt, by |-> "factory"])
           /\ Rendered(r, id, NoCounters)
    /\ UNCHANGED <<keys, last, qtext0, mapping0, entry, executed, ncalls,
                   varsValidate, varsFilter, varsBind>>

\* query, params = format_query_with_list_params(query, params), the set of keys
\* iterated in some order.
Expand ==
    /\ status = "running"
    /\ steps # <<>>
    /\ Head(steps) = "expand"
    /\ \E order \in Orders(get_param_keys(qtext)) :
         LET r == FormatInOrder(order, qtext, mapping)
         IN  /\ qtext' = r.query
             /\ mapping' = r.params
             /\ status' = IF r.status = "ok" THEN "running" ELSE r.status
             /\ steps' = IF r.status = "ok" THEN Tail(steps) ELSE <<>>
             /\ stages' = IF r.status = "ok" THEN stages \cup {"expand"} ELSE stages
    /\ UNCHANGED <<keys, last, qtext0, mapping0, entry, gens, used, executed, ncalls,
                   varsValidate, varsFilter, varsBind>>

\* execute_sql(engine, query, params), and the SqlProxy of its result returned.
Execute ==
    /\ status = "running"
    /\ steps # <<>>
    /\ Head(steps) = "execute"
    /\ executed' = Append(executed, [call |-> ncalls, query |-> qtext,
                                     params |-> mapping, after |-> stages])
    /\ steps' = Tail(steps)
    /\ status' = "returned"
    /\ UNCHANGED <<qtext, mapping, keys, last, qtext0, mapping0, entry, stages, gens,
                   used, ncalls, varsValidate, varsFilter, varsBind>>

(***************************************************************************)
(* Specifications.                                                         *)
(***************************************************************************)
IdleValidate == arg = NoneValue /\ outcome = Pending
IdleFilter == stream = <<>> /\ pos = 0 /\ emitted = <<>>
IdleText == qtext = <<>> /\ keys = {} /\ status = "idle" /\ last = NoCall /\ qtext0 = <<>>
IdleExpand == IdleText /\ mapping = EmptyMap /\ mapping0 = EmptyMap
IdleBind == keycnt = NoCounters /\ calls = <<>>
IdleCalls ==
    /\ entry = "none" /\ steps = <<>> /\ stages = {} /\ gens = <<>> /\ used = NoGen
    /\ executed = <<>> /\ ncalls = 0

InitV == InitValidate /\ IdleFilter /\ IdleExpand /\ IdleBind /\ IdleCalls
NextValidate == CallAssertSafe
SpecValidate == InitV /\ [][NextValidate]_vars

InitF == IdleValidate /\ InitFilter /\ IdleExpand /\ IdleBind /\ IdleCalls
NextFilter == FilterStreamStep
SpecFilter == InitF /\ [][NextFilter]_vars

InitE == IdleValidate /\ IdleFilter /\ InitExpand /\ IdleBind /\ IdleCalls
NextExpand == ExpandStart \/ ExpandKey \/ ExpandReturn
SpecExpand == InitE /\ [][NextExpand]_vars

InitB == IdleValidate /\ IdleFilter /\ IdleText /\ InitBind /\ IdleCalls
NextBind == Bind
SpecBind == InitB /\ [][NextBind]_vars

InitC == IdleValidate /\ IdleFilter /\ IdleBind /\ InitCalls
NextCalls == CallStart \/ Render \/ FactoryRender \/ Expand \/ Execute
SpecCalls == InitC /\ [][NextCalls]_vars

(***************************************************************************)
(* Properties of the safety validator.                                     *)
(***************************************************************************)
AllCharsSafe(s) == \A i \in 1..Len(s) : s[i] \in SafeChars

\* C1: a string made only of characters in [A-Za-z0-9_] (the empty string too) is
\* returned unchanged by assert_safe_filter, and a string with any character
\* outside that set, wherever it stands, raises UnsafeSqlException.
C1_ReturnsIffAllCharsSafe ==
    (arg.t = "str" /\ outcome.status # "pending") =>
        IF AllCharsSafe(arg.v)
          THEN outcome = Returned(arg)
          ELSE outcome.status = "UnsafeSqlException"

(***************************************************************************)
(* Properties of the template safety rewriter.                             *)
(***************************************************************************)
NBegin(n) == Cardinality({i \in 1..n : stream[i].type = "variable_begin"})
NEnd(n) == Cardinality({i \in 1..n : stream[i].type = "variable_end"})
\* Where the i-th token of the stream stands among the emitted tokens when one
\* token follows each earlier variable_begin and three precede each variable_end.
OutPos(i) == i + NBegin(i - 1) + 3 * NEnd(i)

\* C2: filter_stream wraps every interpolation: each variable_begin it emits is
\* immediately followed by an lparen, each variable_end is immediately preceded
\* by rparen, pipe, name assert_safe in that order, and the tokens of the stream
\* are emitted unchanged, in their order, with nothing else added.
C2_EveryInterpolationWrapped ==
    /\ Len(emitted) = pos + NBegin(pos) + 3 * NEnd(pos)
    /\ \A i \in 1..pos : emitted[OutPos(i)] = stream[i]
    /\ \A j \in 1..Len(emitted) :
          /\ emitted[j].type = "variable_begin" =>
                j < Len(emitted) /\ emitted[j + 1].type = "lparen"
          /\ emitted[j].type = "variable_end" =>
                /\ j > 3
                /\ emitted[j - 3].type = "rparen"
                /\ emitted[j - 2].type = "pipe"
                /\ emitted[j - 1].type = "name"
                /\ emitted[j - 1].value = "assert_safe"

\* A whole stream with two interpolations has been rewritten.
C2_Witness ==
    /\ pos = Len(stream)
    /\ NBegin(pos) = 2
    /\ NEnd(pos) = 2
    /\ stream[1].type = "variable_begin"
    /\ stream[2].type = "variable_end"

(***************************************************************************)
(* Properties of the list/tuple parameter expander.                        *)
(***************************************************************************)
IsTupleListKey(key) == EndsWith(key, TupleListSuffix)
\* The reference generated for element i, and for element j of tuple i (0-based).
Ref(key, i) == key \o <<"_">> \o IntToStr(i)
Ref2(key, i, j) == key \o <<"_">> \o IntToStr(i) \o <<"_">> \o IntToStr(j)
Paren(s) == <<"(">> \o s \o <<")">>

\* The group a plain-list token with n elements is to become.
ListGroup(key, n) ==
    IF n = 0 THEN Paren(NullText)
    ELSE Paren(Join(CommaSpace, [i \in 1..n |-> Ref(key, i - 1)]))

\* The group a tuple-list token with n tuples of arity k is to become.
TupleGroup(key, n, k) ==
    IF n = 0 THEN Paren(NullText)
    ELSE Paren(Join(CommaSpace,
               [i \in 1..n |->
                  Paren(Join(CommaSpace, [j \in 1..k |-> Ref2(key, i - 1, j - 1)]))]))

\* A list of n >= 1 tuples that all have arity k.
IsTupleListOf(val, n, k) ==
    /\ val.t = "list"
    /\ Len(val.v) = n
    /\ n >= 1
    /\ \A i \in 1..n : val.v[i].t = "tuple" /\ Len(val.v[i].v) = k

GroupOf(key, val) ==
    IF IsTupleListKey(key)
      THEN TupleGroup(key, Len(val.v), IF Len(val.v) = 0 THEN 0 ELSE Len(val.v[1].v))
      ELSE ListGroup(key, Len(val.v))

\* The query text with every placeholder the pattern finds in it replaced by the
\* group of that placeholder.
RECURSIVE SubstFrom(_, _, _)
SubstFrom(s, p, m) ==
    LET q == NextMatch(s, p)
    IN  IF q = 0 THEN SubSeq(s, p, Len(s))
        ELSE LET key == SubSeq(s, q, q + MatchLen(s, q) - 1)
             IN  SubSeq(s, p, q - 1) \o GroupOf(key, m[Tail(key)])
                 \o SubstFrom(s, q + Len(key), m)

PlainKeysOf(q) == {k \in get_param_keys(q) : ~IsTupleListKey(k)}

\* C4: after format_query_with_list_params, every occurrence of a plain-list
\* token whose entry holds n elements is one parenthesized group of the n
\* references <token>_0 .. <token>_(n-1) joined by ", " (the literal null for
\* n = 0), the mapping maps the i-th generated name to the i-th element, and the
\* original key is gone.
C4_PlainListExpanded ==
    (status = "ok" /\ PlainKeysOf(qtext0) # {}) =>
        /\ qtext = SubstFrom(qtext0, 1, mapping0)
        /\ \A key \in PlainKeysOf(qtext0) :
              /\ Tail(key) \notin DOMAIN mapping
              /\ \A i \in 1..Len(mapping0[Tail(key)].v) :
                    /\ Tail(Ref(key, i - 1)) \in DOMAIN mapping
                    /\ mapping[Tail(Ref(key, i - 1))] = mapping0[Tail(key)].v[i]

\* C5: _format_query_tuple_list_key, given a list of n tuples of arity k, replaces
\* the token by n groups of k references inside one outer group and stores
\* element j of tuple i under <name>_<i>_<j>, referenced at position j of group
\* i: n*k entries, the group numbered by the tuple, the element by its place.
C5_TupleListExpanded ==
    \A n \in 1..MaxListLen, k \in 1..MaxArity :
        ( /\ last.key # <<>>
          /\ IsTupleListKey(last.key)
          /\ Tail(last.key) \in DOMAIN last.params
          /\ IsTupleListOf(last.params[Tail(last.key)], n, k) ) =>
        LET key == last.key
            values == last.params[Tail(key)].v
            names == {Tail(Ref2(key, i, j)) : i \in 0..(n - 1), j \in 0..(k - 1)}
        IN  /\ status \in {"loop", "ok"}
            /\ qtext = Replace(last.query, key, TupleGroup(key, n, k))
            /\ Cardinality(names) = n * k
            /\ DOMAIN mapping = (DOMAIN last.params \ {Tail(key)}) \cup names
            /\ \A i \in 0..(n - 1), j \in 0..(k - 1) :
                  mapping[Tail(Ref2(key, i, j))] = values[i + 1].v[j + 1]
            /\ \A x \in DOMAIN mapping \ names : mapping[x] = last.params[x]

\* Two tuples of arity two have been expanded in a query that holds the token.
C5_Witness ==
    /\ last.key # <<>>
    /\ IsTupleListKey(last.key)
    /\ Tail(last.key) \in DOMAIN last.params
    /\ IsTupleListOf(last.params[Tail(last.key)], 2, 2)
    /\ \E p \in 1..Len(last.query) : OccursAt(last.query, p, last.key)
    /\ status = "ok"

\* The names the expansion of the call's placeholders generates.
GeneratedNames ==
    UNION { LET val == mapping0[Tail(key)]
            IN  IF IsTupleListKey(key)
                  THEN {Tail(Ref2(key, i - 1, j - 1)) :
                          i \in 1..Len(val.v), j \in 1..(MaxArity + 1)}
                       \cap DOMAIN mapping
                  ELSE {Tail(Ref(key, i - 1)) : i \in 1..Len(val.v)}
          : key \in get_param_keys(qtext0) }

\* C8: when format_query_with_list_params succeeds, every expanded key is gone
\* from the mapping, no generated key was a key of the mapping before the call,
\* and every other entry the mapping held keeps its value.
C8_NoKeyClobbered ==
    status = "ok" =>
        LET expanded == {Tail(key) : key \in get_param_keys(qtext0)}
        IN  /\ \A x \in expanded : x \notin DOMAIN mapping
            /\ GeneratedNames \cap DOMAIN mapping0 = {}
            /\ \A x \in DOMAIN mapping0 \ expanded :
                  x \in DOMAIN mapping /\ mapping[x] = mapping0[x]

\* C10: the text and the mapping format_query_with_list_params returns are the
\* same whatever order the set of matched tokens is iterated in, and each token's
\* occurrences are replaced by that token's own group.
C10_OrderInsensitive ==
    status = "ok" =>
        /\ \A order \in Orders(get_param_keys(qtext0)) :
              FormatInOrder(order, qtext0, mapping0) = Ok(qtext, mapping)
        /\ qtext = SubstFrom(qtext0, 1, mapping0)

(***************************************************************************)
(* Properties of the bind-key generator.                                   *)
(***************************************************************************)
\* C6: the keys successive calls of one bind function return are pairwise
\* distinct, none was a key of the mapping when it was generated, so no entry the
\* mapping held and no earlier bound value is overwritten; and each call ends,
\* after at most one more try than the mapping had keys.
C6_FreshDistinctKeys ==
    /\ \A i, j \in 1..Len(calls) : i # j => calls[i].key # calls[j].key
    /\ \A i \in 1..Len(calls) :
          /\ calls[i].key \notin calls[i].before
          /\ calls[i].key \in DOMAIN mapping
          /\ mapping[calls[i].key] = calls[i].val
          /\ calls[i].tries <= Cardinality(calls[i].before) + 1
    /\ \A x \in DOMAIN mapping0 : x \in DOMAIN mapping /\ mapping[x] = mapping0[x]

\* Keys were bound in a mapping that already held bp0 and bp1: both were skipped.
C6_Witness ==
    /\ Len(calls) >= 2
    /\ <<"b", "p", "0">> \in DOMAIN mapping0
    /\ <<"b", "p", "1">> \in DOMAIN mapping0
    /\ calls[1].tries = 3

\* C7: each call of the bind function stores the value under the chosen name and
\* returns that name prefixed with the reference marker ":".
C7_ReturnsSigilPrefixedName ==
    \A i \in 1..Len(calls) :
        /\ mapping[calls[i].key] = calls[i].val
        /\ calls[i].ret = <<":">> \o calls[i].key

\* C7 as amended: each call of the bind function stores the value under the chosen
\* name and returns that name itself, with no marker before it: text of the safe
\* class, which assert_safe_filter lets through.
C7_ReturnsBareName ==
    \A i \in 1..Len(calls) :
        /\ mapping[calls[i].key] = calls[i].val
        /\ calls[i].ret = calls[i].key
        /\ calls[i].ret[1] # ":"
        /\ assert_safe_filter(Str(calls[i].ret)) = Returned(Str(calls[i].ret))

\* A value has been bound after a collision was skipped.
C7_Witness ==
    /\ Len(calls) >= 1
    /\ calls[1].tries > 1
    /\ calls[1].ret = <<"b", "p", "1">>

(***************************************************************************)
(* Properties of the entry points.                                         *)
(***************************************************************************)
IsError(st) == st \notin {"idle", "running", "returned"}

\* C3: in sql_inner and in SqlProxyFactory.__call__ the execute capability is
\* invoked only after the rendering and the expansion of that call have both
\* completed without error; a call in which either raises ends with the error,
\* returns nothing and never invokes execute.
C3_ExecuteOnlyAfterBothStages ==
    /\ \A i \in 1..Len(executed) : executed[i].after = {"render", "expand"}
    /\ Len(executed) <= ncalls
    /\ \A i, j \in 1..Len(executed) : i < j => executed[i].call < executed[j].call
    /\ IsError(status) =>
          /\ stages # {"render", "expand"}
          /\ steps = <<>>
          /\ \A i \in 1..Len(executed) : executed[i].call # ncalls
    /\ status = "returned" =>
          /\ Len(executed) > 0
          /\ executed[Len(executed)].call = ncalls
          /\ executed[Len(executed)].query = qtext

\* Two calls of sql_inner: the first executed its query; in the second the
\* rendering completed and the expansion then raised.
C3_Witness ==
    /\ ncalls = 2
    /\ Len(executed) = 1
    /\ entry = "sql_inner"
    /\ stages = {"render"}
    /\ status = "KeyError"

\* C9: a render call whose bind function the caller did not supply renders with
\* a bind function of its own whose counter starts at 0, whatever earlier calls
\* generated, also when the call is given the mapping object of an earlier call.
C9_CounterStartsAtZero ==
    (used.id # 0 /\ gens[used.id].by # "caller") => used.start = NoCounters

====
